---------------------------- MODULE Spec2Model ----------------------------
(***************************************************************************)
(* A model of the FODMAP food helper: the catalog service                  *)
(* (packages/api/src/fodmap-service.ts, in its rating and its category     *)
(* variant), the HTTP search handlers and the chat handlers of the Azure   *)
(* functions and of the local development server.                          *)
(*                                                                         *)
(* Text is a sequence of one-character strings, so that toLowerCase, trim, *)
(* includes and split are computed as JavaScript computes them.            *)
(***************************************************************************)
EXTENDS Naturals, Sequences, FiniteSets, TLC

VARIABLES
    dataSource,   \* the records of data/fodmap-foods.json
    fileState,    \* "ok", "missing" or "corrupt": what readFileSync/JSON.parse meet
    variant,      \* which FodmapService class the process runs: "rating" or "category"
    foods,        \* FodmapService.foods
    initialized,  \* FodmapService.initialized
    lastOp,       \* the last call of a catalog operation and what it returned
    http,         \* the last HTTP search request and its response
    azureOpenAiEndpoint,  \* whether process.env.AZURE_OPENAI_API_ENDPOINT is set
    azureOpenAI,  \* whether the local server holds an Azure OpenAI client
    chat,         \* the chat request being served: its handler, inputs and response
    reads,        \* how many times the process has called readFileSync on the data file
    inflight,     \* the requests whose handlers are between two awaits, by request
    rated         \* the calls of getFoodRating on one record: the first and the last result

vars == <<dataSource, fileState, variant, foods, initialized, lastOp, http,
          azureOpenAiEndpoint, azureOpenAI, chat, reads, inflight, rated>>

-----------------------------------------------------------------------------
(* Bounds of the model *)

\* the longest catalog
MaxFoods == 12
\* how many records of a catalog may be of the second kind (Rice among Bananas)
MaxOdd == 1
\* the longest catalog behind the HTTP handlers
MaxHttpFoods == 3
\* the longest catalog behind the chat handlers
MaxChatFoods == 2
\* the longest reply of the generative model
MaxReply == 3
\* how many reads of the data file a process is followed through
MaxReads == 3
\* how many requests are in flight at once
MaxRequests == 2
\* the latest write of a response that may fail
MaxFailAt == 2
\* the largest severity code of a record's details
MaxCode == 3

-----------------------------------------------------------------------------
(* Text *)

UpperChars == <<"A", "B", "C", "D", "E", "F", "G", "H", "I", "J", "K", "L", "M",
                "N", "O", "P", "Q", "R", "S", "T", "U", "V", "W", "X", "Y", "Z">>
LowerChars == <<"a", "b", "c", "d", "e", "f", "g", "h", "i", "j", "k", "l", "m",
                "n", "o", "p", "q", "r", "s", "t", "u", "v", "w", "x", "y", "z">>

\* the characters /\s/ and String.prototype.trim treat as white space
WhiteSpace == {" ", "\n", "\t"}

Min(a, b) == IF a < b THEN a ELSE b

toLowerCaseChar(c) ==
    IF \E i \in 1..Len(UpperChars) : UpperChars[i] = c
    THEN LowerChars[CHOOSE i \in 1..Len(UpperChars) : UpperChars[i] = c]
    ELSE c

toUpperCaseChar(c) ==
    IF \E i \in 1..Len(LowerChars) : LowerChars[i] = c
    THEN UpperChars[CHOOSE i \in 1..Len(LowerChars) : LowerChars[i] = c]
    ELSE c

toLowerCase(s) == [i \in 1..Len(s) |-> toLowerCaseChar(s[i])]
toUpperCase(s) == [i \in 1..Len(s) |-> toUpperCaseChar(s[i])]

\* String.prototype.trim: the text without its leading and trailing white space
trim(s) ==
    LET keep == {i \in 1..Len(s) : s[i] \notin WhiteSpace}
    IN  IF keep = {} THEN << >>
        ELSE LET first == CHOOSE i \in keep : \A j \in keep : i <= j
                 last  == CHOOSE i \in keep : \A j \in keep : j <= i
             IN  SubSeq(s, first, last)

\* String.prototype.includes: t occurs in s as a contiguous run
includes(s, t) ==
    \E i \in 1..(Len(s) + 1) :
        /\ i + Len(t) - 1 <= Len(s)
        /\ \A k \in 1..Len(t) : s[i + k - 1] = t[k]

\* Array.prototype.slice(start, end), 0-based, end exclusive
slice(s, start, end) == SubSeq(s, start + 1, Min(end, Len(s)))

-----------------------------------------------------------------------------
(* Food records *)

\* a field the record's schema does not have reads as undefined
Undefined == "undefined"
UndefinedText == <<"undefined">>
\* Array.prototype.find without a match
UndefinedFood == [undefined |-> TRUE]

Ratings == <<"low", "moderate", "high">>

Banana == <<"B", "a", "n", "a", "n", "a">>
Rice == <<"R", "i", "c", "e">>
Fruit == <<"F", "r", "u", "i", "t">>
Grain == <<"G", "r", "a", "i", "n">>
OneMedium == <<"1", " ", "m", "e", "d", "i", "u", "m">>
OneCup == <<"1", " ", "c", "u", "p">>
Ripe == <<"r", "i", "p", "e">>
Plain == <<"p", "l", "a", "i", "n">>

IdOf(i) == "f" \o ToString(i)

\* details of a FodmapFood of the category variant: a severity code per sugar class
Details(oligos, fructose, polyols, lactose) ==
    [oligos |-> oligos, fructose |-> fructose, polyols |-> polyols, lactose |-> lactose]
\* the rating variant has no details
UndefinedDetails == [undefined |-> TRUE]

\* FodmapFood of the rating variant: id, name, rating, safeServing, tips, alternatives
RatingFood(i, odd) ==
    [id           |-> IdOf(i),
     name         |-> IF odd THEN Rice ELSE Banana,
     rating       |-> Ratings[((i - 1) % 3) + 1],
     safeServing  |-> IF odd THEN OneCup ELSE OneMedium,
     tips         |-> IF odd THEN Plain ELSE Ripe,
     alternatives |-> IF odd THEN <<Banana>> ELSE << >>,
     fodmap       |-> Undefined,
     category     |-> UndefinedText,
     qty          |-> UndefinedText,
     details      |-> UndefinedDetails]

\* FodmapFood of the category variant: id, name, fodmap, category, qty, details
CategoryFood(i, odd) ==
    [id           |-> IdOf(i),
     name         |-> IF odd THEN Rice ELSE Banana,
     rating       |-> Undefined,
     safeServing  |-> UndefinedText,
     tips         |-> UndefinedText,
     alternatives |-> UndefinedText,
     fodmap       |-> IF i % 2 = 1 THEN "low" ELSE "high",
     category     |-> IF odd THEN Grain ELSE Fruit,
     qty          |-> IF odd THEN UndefinedText ELSE OneMedium,
     details      |-> Details(i % 3, (i + 1) % 3, IF odd THEN 2 ELSE 0, 0)]

\* a data file of n records, those at the positions in odds being Rice
Catalog(schema, n, odds) ==
    [i \in 1..n |-> IF schema = "rating" THEN RatingFood(i, i \in odds)
                    ELSE CategoryFood(i, i \in odds)]

OddSets(n) == {odds \in SUBSET (1..n) : Cardinality(odds) <= MaxOdd}

DataSources(schema, longest) ==
    {Catalog(schema, p[1], p[2]) :
        p \in {p \in (0..longest) \X SUBSET (1..longest) : p[2] \in OddSets(p[1])}}

-----------------------------------------------------------------------------
(* FodmapService *)

\* searchFoods keeps at most this many records
SearchLimit == 10

\* initialize without its try/catch: a failed read or parse reaches the caller
initializeNoCatch ==
    IF initialized
    THEN [foods |-> foods, initialized |-> TRUE, threw |-> FALSE, read |-> FALSE]
    ELSE IF fileState = "ok"
         THEN [foods |-> dataSource, initialized |-> TRUE, threw |-> FALSE, read |-> TRUE]
         ELSE [foods |-> foods, initialized |-> FALSE, threw |-> TRUE, read |-> TRUE]

\* initialize without its `if (this.initialized) return`
initializeUnguarded ==
    IF fileState = "ok"
    THEN [foods |-> dataSource, initialized |-> TRUE, threw |-> FALSE, read |-> TRUE]
    ELSE [foods |-> << >>, initialized |-> FALSE, threw |-> FALSE, read |-> TRUE]

\* FodmapService.initialize: the state of the service after the call, whether
\* the call threw to its caller and whether it called readFileSync.  A failed
\* read or parse is caught, and leaves initialized false.
initialize ==
    IF initialized
    THEN [foods |-> foods, initialized |-> TRUE, threw |-> FALSE, read |-> FALSE]
    ELSE IF fileState = "ok"
         THEN [foods |-> dataSource, initialized |-> TRUE, threw |-> FALSE, read |-> TRUE]
         ELSE [foods |-> << >>, initialized |-> FALSE, threw |-> FALSE, read |-> TRUE]

\* the filter of searchFoods matching the wrong field of the record
matchesTips(food, searchTerm) == includes(toLowerCase(food.tips), searchTerm)

\* the filter of searchFoods, rating variant
matchesName(food, searchTerm) == includes(toLowerCase(food.name), searchTerm)

\* the filter of searchFoods, category variant
matchesNameOrCategory(food, searchTerm) ==
    \/ includes(toLowerCase(food.name), searchTerm)
    \/ includes(toLowerCase(food.category), searchTerm)

searchTermOf(query) == trim(toLowerCase(query))

\* searchFoods without its slice(0, 10)
searchFoodsNoLimit(fs, query) ==
    LET searchTerm == searchTermOf(query)
    IN  SelectSeq(fs, LAMBDA food : matchesName(food, searchTerm))

\* FodmapService.searchFoods of the rating variant, after initialize
searchFoods(fs, query) ==
    LET searchTerm == searchTermOf(query)
    IN  slice(SelectSeq(fs, LAMBDA food : matchesName(food, searchTerm)), 0, SearchLimit)

\* FodmapService.searchFoods of the category variant, after initialize
searchFoodsCategoryVariant(fs, query) ==
    LET searchTerm == searchTermOf(query)
    IN  slice(SelectSeq(fs, LAMBDA food : matchesNameOrCategory(food, searchTerm)),
              0, SearchLimit)

\* FodmapService.getFoodById, after initialize
getFoodById(fs, id) ==
    IF \E i \in 1..Len(fs) : fs[i].id = id
    THEN fs[CHOOSE i \in 1..Len(fs) : fs[i].id = id /\ \A j \in 1..(i - 1) : fs[j].id # id]
    ELSE UndefinedFood

\* a getFoodsByRating that keeps the first records only, as searchFoods does
getFoodsByRatingLimited(fs, rating) ==
    slice(SelectSeq(fs, LAMBDA food : food.rating = rating), 0, SearchLimit)

\* FodmapService.getFoodsByRating, after initialize
getFoodsByRating(fs, rating) == SelectSeq(fs, LAMBDA food : food.rating = rating)

\* FodmapService.getFoodsByCategory, after initialize
getFoodsByCategory(fs, category) ==
    SelectSeq(fs, LAMBDA food : toLowerCase(food.category) = toLowerCase(category))

\* FodmapService.getAllFoods, after initialize
getAllFoods(fs) == fs


\* the emoji that open a recommendation, each one character of the text
CheckMark == "(check mark)"
WarningSign == "(warning sign)"
CrossMark == "(cross mark)"

SafeToEat == <<" ", "S", "a", "f", "e", " ", "t", "o", " ", "e", "a", "t", " ", "i", "n",
               " ", "s", "e", "r", "v", "i", "n", "g", "s", " ", "o", "f", " ">>
ModerateContent == <<" ", "M", "o", "d", "e", "r", "a", "t", "e", " ", "F", "O", "D", "M",
                     "A", "P", " ", "c", "o", "n", "t", "e", "n", "t", ".", " ">>
HighContent == <<" ", "H", "i", "g", "h", " ", "F", "O", "D", "M", "A", "P", " ", "c", "o",
                 "n", "t", "e", "n", "t", ".", " ">>

\* a getFoodRating that calls safe every record not rated high
getFoodRatingSafeUnlessHigh(food) ==
    LET safeForLowFodmap == food.rating # "high"
    IN  [food             |-> food,
         rating           |-> food.rating,
         safeForLowFodmap |-> safeForLowFodmap,
         recommendation   |-> <<CheckMark>> \o SafeToEat \o food.safeServing,
         safeServing      |-> food.safeServing,
         tips             |-> food.tips,
         alternatives     |-> food.alternatives]

\* a getFoodRating whose serving text depends on the last catalog operation
getFoodRatingOfLastOperation(food) ==
    LET safeForLowFodmap == food.rating = "low"
        safeServing == IF lastOp.op = "getAllFoods" THEN << >> ELSE food.safeServing
    IN  [food             |-> food,
         rating           |-> food.rating,
         safeForLowFodmap |-> safeForLowFodmap,
         recommendation   |-> <<CheckMark>> \o SafeToEat \o safeServing,
         safeServing      |-> safeServing,
         tips             |-> food.tips,
         alternatives     |-> food.alternatives]


\* a getFoodRating with one message for every record that is not low
getFoodRatingCautionUnlessLow(food) ==
    LET safeForLowFodmap == food.rating = "low"
    IN  [food             |-> food,
         rating           |-> food.rating,
         safeForLowFodmap |-> safeForLowFodmap,
         recommendation   |-> IF safeForLowFodmap
                              THEN <<CheckMark>> \o SafeToEat \o food.safeServing
                              ELSE <<WarningSign>> \o ModerateContent \o food.safeServing,
         safeServing      |-> food.safeServing,
         tips             |-> food.tips,
         alternatives     |-> food.alternatives]

\* FodmapService.getFoodRating of the rating variant
getFoodRating(food) ==
    LET safeForLowFodmap == food.rating = "low"
        recommendation ==
            IF safeForLowFodmap THEN <<CheckMark>> \o SafeToEat \o food.safeServing
            ELSE IF food.rating = "moderate"
                 THEN <<WarningSign>> \o ModerateContent \o food.safeServing
                 ELSE <<CrossMark>> \o HighContent \o food.safeServing
    IN  [food             |-> food,
         rating           |-> food.rating,
         safeForLowFodmap |-> safeForLowFodmap,
         recommendation   |-> recommendation,
         safeServing      |-> food.safeServing,
         tips             |-> food.tips,
         alternatives     |-> food.alternatives]

-----------------------------------------------------------------------------
(* HTTP responses *)

\* http-response.js of the api package
badRequest(message) == [status |-> 400, body |-> [kind |-> "error", error |-> message]]
notFound(message) == [status |-> 404, body |-> [kind |-> "error", error |-> message]]
serviceUnavailable(message) ==
    [status |-> 503, body |-> [kind |-> "error", error |-> message]]
ok(body) == [status |-> 200, body |-> body]

\* express: response.status(code).json(body), and response.json(body) with status 200
json(status, body) == [status |-> status, body |-> body]

-----------------------------------------------------------------------------
(* The HTTP search handlers *)

\* a parameter the request does not carry: searchParams.get gives null, express undefined
Null == "null"
NullText == <<"null">>

\* a query must have this many characters
MinQueryLength == 2

\* JavaScript truthiness of a parameter: present and not the empty string
truthy(param) == param # Null /\ param # ""
truthyText(param) == param # NullText /\ param # << >>

\* foods.map((food) => ({food, rating: getFoodRating(food)}))
withRatings(fs) == [i \in 1..Len(fs) |-> [food |-> fs[i], rating |-> getFoodRating(fs[i])]]

listBody(results) ==
    [kind |-> "list", results |-> results, total |-> Len(results), query |-> NullText]
queryBody(results, query) ==
    [kind |-> "list", results |-> results, total |-> Len(results), query |-> query]
itemBody(food) == [kind |-> "item", food |-> food, rating |-> getFoodRating(food)]

\* searchFoods of functions/fodmap-search.ts; s is what initialize left
fodmapSearch(s, query, rating, id) ==
    IF truthy(id)
    THEN IF s.threw THEN badRequest("Search failed")
         ELSE LET food == getFoodById(s.foods, id)
              IN  IF food = UndefinedFood THEN badRequest("Food not found")
                  ELSE ok(itemBody(food))
    ELSE IF truthy(rating) /\ rating \in {"low", "moderate", "high"}
    THEN IF s.threw THEN badRequest("Search failed")
         ELSE ok(listBody(withRatings(getFoodsByRating(s.foods, rating))))
    ELSE IF truthyText(query)
    THEN IF Len(query) < MinQueryLength
         THEN badRequest("Query must be at least 2 characters long")
         ELSE IF s.threw THEN badRequest("Search failed")
              ELSE ok(queryBody(withRatings(searchFoods(s.foods, query)), query))
    ELSE IF s.threw THEN badRequest("Search failed")
         ELSE ok(listBody(withRatings(getAllFoods(s.foods))))

\* app.get('/api/fodmap/search') of local-server.js; s is what initialize left
localSearch(s, query, rating, id) ==
    IF truthy(id)
    THEN IF s.threw THEN json(500, [kind |-> "error", error |-> "Search service unavailable"])
         ELSE LET food == getFoodById(s.foods, id)
              IN  IF food = UndefinedFood
                  THEN json(404, [kind |-> "error", error |-> "Food not found"])
                  ELSE json(200, itemBody(food))
    ELSE IF truthy(rating) /\ rating \in {"low", "moderate", "high"}
    THEN IF s.threw THEN json(500, [kind |-> "error", error |-> "Search service unavailable"])
         ELSE json(200, listBody(withRatings(getFoodsByRating(s.foods, rating))))
    ELSE IF truthyText(query)
    THEN IF Len(query) < MinQueryLength
         THEN json(400, [kind |-> "error",
                         error |-> "Query must be at least 2 characters long"])
         ELSE IF s.threw
              THEN json(500, [kind |-> "error", error |-> "Search service unavailable"])
              ELSE json(200, queryBody(withRatings(searchFoods(s.foods, query)), query))
    ELSE IF s.threw THEN json(500, [kind |-> "error", error |-> "Search service unavailable"])
         ELSE json(200, listBody(withRatings(getAllFoods(s.foods))))

\* whether the handler reaches a catalog operation, each of which calls initialize
callsService(query, rating, id) ==
    \/ truthy(id)
    \/ truthy(rating) /\ rating \in {"low", "moderate", "high"}
    \/ ~truthyText(query)
    \/ Len(query) >= MinQueryLength

-----------------------------------------------------------------------------
(* Chat: the grounding block and the deltas *)

UndefinedChars == <<"u", "n", "d", "e", "f", "i", "n", "e", "d">>

\* a template literal prints an undefined value as the word undefined
templateText(value) == IF value = UndefinedText THEN UndefinedChars ELSE value

\* the characters of a rating value
ratingText(rating) ==
    CASE rating = "low" -> <<"l", "o", "w">>
      [] rating = "moderate" -> <<"m", "o", "d", "e", "r", "a", "t", "e">>
      [] rating = "high" -> <<"h", "i", "g", "h">>
      [] OTHER -> UndefinedChars

\* Array.prototype.join
RECURSIVE join(_, _)
join(texts, separator) ==
    IF Len(texts) = 0 THEN << >>
    ELSE IF Len(texts) = 1 THEN texts[1]
    ELSE texts[1] \o separator \o join(Tail(texts), separator)

GenerallySafe ==
    <<" ", "G", "e", "n", "e", "r", "a", "l", "l", "y", " ", "s", "a", "f", "e", " ",
      "f", "o", "r", " ", "l", "o", "w", " ", "F", "O", "D", "M", "A", "P", " ", "d",
      "i", "e", "t">>
HighIn ==
    <<" ", "H", "i", "g", "h", " ", "i", "n", " ">>
AvoidOrConsume ==
    <<".", " ", "A", "v", "o", "i", "d", " ", "o", "r", " ", "c", "o", "n", "s", "u",
      "m", "e", " ", "v", "e", "r", "y", " ", "s", "m", "a", "l", "l", " ", "a", "m",
      "o", "u", "n", "t", "s", ".">>
NotRecommended ==
    <<" ", "N", "o", "t", " ", "r", "e", "c", "o", "m", "m", "e", "n", "d", "e", "d",
      " ", "f", "o", "r", " ", "l", "o", "w", " ", "F", "O", "D", "M", "A", "P", " ",
      "d", "i", "e", "t">>
Oligosaccharides ==
    <<"o", "l", "i", "g", "o", "s", "a", "c", "c", "h", "a", "r", "i", "d", "e", "s">>
Disaccharides ==
    <<"d", "i", "s", "a", "c", "c", "h", "a", "r", "i", "d", "e", "s">>
Monosaccharides ==
    <<"m", "o", "n", "o", "s", "a", "c", "c", "h", "a", "r", "i", "d", "e", "s">>
Polyols ==
    <<"p", "o", "l", "y", "o", "l", "s">>

\* the mapping of the README's test script: ['low', 'medium', 'high'][value] || 'unknown'
componentToRatingOrUnknown(value) ==
    CASE value = 0 -> "low"
      [] value = 1 -> "medium"
      [] value = 2 -> "high"
      [] OTHER -> "unknown"

\* componentToRating of getFoodRating, category variant: a switch with a default
componentToRating(value) ==
    CASE value = 0 -> "low"
      [] value = 1 -> "medium"
      [] value = 2 -> "high"
      [] OTHER -> "low"

\* components of getFoodRating, category variant
componentsOf(food) ==
    [oligosaccharides |-> componentToRating(food.details.oligos),
     disaccharides    |-> componentToRating(food.details.lactose),
     monosaccharides  |-> componentToRating(food.details.fructose),
     polyols          |-> componentToRating(food.details.polyols)]

\* the entries of components with the keys in alphabetical order
componentEntriesSorted(components) ==
    <<[component |-> Disaccharides, rating |-> components.disaccharides],
      [component |-> Monosaccharides, rating |-> components.monosaccharides],
      [component |-> Oligosaccharides, rating |-> components.oligosaccharides],
      [component |-> Polyols, rating |-> components.polyols]>>

\* Object.entries(components): the keys in the order the object literal gives them
componentEntries(components) ==
    <<[component |-> Oligosaccharides, rating |-> components.oligosaccharides],
      [component |-> Disaccharides, rating |-> components.disaccharides],
      [component |-> Monosaccharides, rating |-> components.monosaccharides],
      [component |-> Polyols, rating |-> components.polyols]>>

\* a getFoodRating that derives the verdict from the four severity codes
getFoodRatingFromComponents(food) ==
    LET components == componentsOf(food)
        kept == SelectSeq(componentEntries(components),
                          LAMBDA entry : entry.rating = "high" \/ entry.rating = "medium")
        safeForLowFodmap == Len(kept) = 0
    IN  [food             |-> food,
         rating           |-> IF safeForLowFodmap THEN "low" ELSE "high",
         safeForLowFodmap |-> safeForLowFodmap,
         components       |-> components,
         recommendation   |-> IF safeForLowFodmap THEN <<CheckMark>> \o GenerallySafe
                              ELSE <<WarningSign>> \o NotRecommended]

\* FodmapService.getFoodRating of the category variant
getFoodRatingCategoryVariant(food) ==
    LET components == componentsOf(food)
        safeForLowFodmap == food.fodmap = "low"
        kept == SelectSeq(componentEntries(components),
                          LAMBDA entry : entry.rating = "high" \/ entry.rating = "medium")
        highComponents == [i \in 1..Len(kept) |-> kept[i].component]
        recommendation ==
            IF safeForLowFodmap
            THEN IF food.qty # UndefinedText /\ food.qty # << >>
                 THEN <<CheckMark>> \o SafeToEat \o food.qty
                 ELSE <<CheckMark>> \o GenerallySafe
            ELSE IF Len(highComponents) > 0
                 THEN <<WarningSign>> \o HighIn \o join(highComponents, <<",", " ">>)
                      \o AvoidOrConsume
                 ELSE <<WarningSign>> \o NotRecommended
    IN  [food             |-> food,
         rating           |-> food.fodmap,
         safeForLowFodmap |-> safeForLowFodmap,
         components       |-> components,
         recommendation   |-> recommendation]

ContextHeader == <<"F", "O", "D", "M", "A", "P", " ", "F", "O", "O", "D", " ", "I", "N", "F",
                   "O", "R", "M", "A", "T", "I", "O", "N", ":", "\n">>
FodmapSafeServing == <<" ", "F", "O", "D", "M", "A", "P", " ", "-", " ", "S", "a", "f", "e",
                       " ", "s", "e", "r", "v", "i", "n", "g", ":", " ">>
TipsLabel == <<"T", "i", "p", "s", ":", " ">>
AlternativesLabel == <<"A", "l", "t", "e", "r", "n", "a", "t", "i", "v", "e", "s", ":", " ">>
RecommendationLabel == <<"R", "e", "c", "o", "m", "m", "e", "n", "d", "a", "t", "i", "o", "n",
                         ":", " ">>
FodmapOpenParen == <<" ", "F", "O", "D", "M", "A", "P", " ", "(">>
SafeServingLabel == <<" ", "-", " ", "S", "a", "f", "e", " ", "s", "e", "r", "v", "i", "n", "g",
                      ":", " ">>

\* what fodmapChat and fodmapChatStream add to contextInfo for one food
contextEntry(food) ==
    LET rating == getFoodRating(food)
    IN  food.name \o <<":", " ">> \o toUpperCase(ratingText(rating.rating))
            \o FodmapSafeServing \o food.safeServing \o <<"\n">>
        \o TipsLabel \o food.tips \o <<"\n">>
        \o (IF Len(food.alternatives) > 0
            THEN AlternativesLabel \o join(food.alternatives, <<",", " ">>) \o <<"\n">>
            ELSE << >>)
        \o RecommendationLabel \o rating.recommendation \o <<"\n", "\n">>

\* a context build that describes the first match only
contextInfoOfFirstMatch(searchResults) ==
    IF Len(searchResults) > 0 THEN ContextHeader \o contextEntry(searchResults[1])
    ELSE << >>

\* contextInfo of fodmapChat and fodmapChatStream
contextInfoOf(searchResults) ==
    IF Len(searchResults) > 0
    THEN ContextHeader
         \o join([i \in 1..Len(searchResults) |-> contextEntry(searchResults[i])], << >>)
    ELSE << >>

\* what the local server adds to contextInfo for one food
localContextEntry(food) ==
    LET rating == getFoodRating(food)
    IN  food.name \o <<":", " ">> \o toUpperCase(ratingText(rating.rating))
            \o FodmapOpenParen \o templateText(food.category) \o <<")">>
            \o (IF truthyText(food.qty) /\ food.qty # UndefinedText
                THEN SafeServingLabel \o food.qty ELSE << >>)
            \o <<"\n">>
        \o RecommendationLabel \o rating.recommendation \o <<"\n">>

\* contextInfo of the local server's chat routes
localContextInfoOf(searchResults) ==
    IF Len(searchResults) > 0
    THEN ContextHeader
         \o join([i \in 1..Len(searchResults) |-> localContextEntry(searchResults[i])], << >>)
    ELSE << >>

\* String.prototype.split(/(\s+)/): the runs of other characters and, between
\* them, the runs of white space; the first and the last piece may be empty
RECURSIVE split(_)
split(text) ==
    LET spaces == {i \in 1..Len(text) : text[i] \in WhiteSpace}
    IN  IF spaces = {} THEN <<text>>
        ELSE LET first == CHOOSE i \in spaces : \A j \in spaces : i <= j
                 \* the last position of the white-space run that starts at first
                 last == CHOOSE j \in first..Len(text) :
                            /\ \A k \in first..j : text[k] \in WhiteSpace
                            /\ (j = Len(text) \/ text[j + 1] \notin WhiteSpace)
             IN  <<SubSeq(text, 1, first - 1), SubSeq(text, first, last)>>
                 \o split(SubSeq(text, last + 1, Len(text)))

\* the local server sends at most this many foods with a delta
FoodResultsLimit == 3

\* the food summary fodmapChat and fodmapChatStream put into a delta
foodSummary(food) ==
    [id |-> food.id, name |-> food.name, rating |-> food.rating,
     safeServing |-> food.safeServing, tips |-> food.tips,
     alternatives |-> food.alternatives]

\* context.foodResults without the test of searchResults.length: never undefined
foodResultsAlwaysDefined(searchResults) ==
    [defined |-> TRUE,
     items |-> [i \in 1..Len(searchResults) |-> foodSummary(searchResults[i])]]

\* context.foodResults of the deltas of fodmapChat and fodmapChatStream
foodResultsOf(searchResults) ==
    IF Len(searchResults) > 0
    THEN [defined |-> TRUE,
          items |-> [i \in 1..Len(searchResults) |-> foodSummary(searchResults[i])]]
    ELSE [defined |-> FALSE, items |-> << >>]

\* context.foodResults of the local server without its slice(0, 3)
localFoodResultsUnsliced(searchResults) ==
    IF Len(searchResults) > 0
    THEN [defined |-> TRUE, items |-> searchResults]
    ELSE [defined |-> FALSE, items |-> << >>]

\* context.foodResults of the local server's deltas
localFoodResultsOf(searchResults) ==
    IF Len(searchResults) > 0
    THEN [defined |-> TRUE, items |-> slice(searchResults, 0, FoodResultsLimit)]
    ELSE [defined |-> FALSE, items |-> << >>]

\* a delta without a completion marker
delta(content, sessionId, foodResults) ==
    [content |-> content, role |-> "assistant", sessionId |-> sessionId,
     foodResults |-> foodResults, finishReason |-> Undefined, finish_reason |-> Undefined]

\* finalDelta of fodmapChatStream: its marker is the key finish_reason
finalDeltaOf(sessionId, foodResults) ==
    [content |-> << >>, role |-> "assistant", sessionId |-> sessionId,
     foodResults |-> foodResults, finishReason |-> Undefined, finish_reason |-> "stop"]

\* finalDelta of the local server's streaming route: its marker is the key finishReason
localFinalDeltaOf(sessionId, foodResults) ==
    [content |-> << >>, role |-> "assistant", sessionId |-> sessionId,
     foodResults |-> foodResults, finishReason |-> "stop", finish_reason |-> Undefined]

-----------------------------------------------------------------------------
(* Chat: the handlers *)

\* the request body: messages may be missing; a message may have no content
ChatMessage(content) == [role |-> "user", content |-> content]
ChatBody(messages, sessionId) ==
    [hasMessages |-> TRUE, messages |-> messages, sessionId |-> sessionId]
NoMessagesBody == [hasMessages |-> FALSE, messages |-> << >>, sessionId |-> Null]

\* messages.at(-1)?.content, undefined when there is no last message
lastContent(body) ==
    IF body.hasMessages /\ Len(body.messages) > 0
    THEN body.messages[Len(body.messages)].content
    ELSE NullText

\* !messages || messages.length === 0 || !messages.at(-1)?.content
invalidMessages(body) ==
    \/ ~body.hasMessages
    \/ Len(body.messages) = 0
    \/ ~truthyText(lastContent(body))

\* chatContext?.sessionId || uuidv4()
sessionIdOf(body) == IF truthy(body.sessionId) THEN body.sessionId ELSE "uuid"

\* the model fodmapChat and fodmapChatStream make: the cloud model when the
\* endpoint is set, the local one otherwise
modelOf == IF azureOpenAiEndpoint THEN "AzureChatOpenAI" ELSE "ChatOllama"

\* the titles a session may have stored, and the one the title call gives
StoredTitles == {Null, "Fruit for breakfast"}
GeneratedTitle == "Shopping for bananas"

\* the request's session as the history store holds it when the handler starts
WithSession(c, storedTitle) == [c EXCEPT !.titleBefore = storedTitle, !.title = storedTitle]

\* a request a handler has taken up, nothing sent yet and no history store made
Taken(handler, body) ==
    [handler |-> handler, phase |-> "done", body |-> body, status |-> 0, error |-> "",
     out |-> << >>, ended |-> FALSE, replyText |-> << >>, searchResults |-> << >>,
     contextInfo |-> << >>, sessionId |-> Null, words |-> << >>, cb |-> << >>,
     historySessionId |-> Null, streamCreated |-> FALSE, jsonStream |-> << >>,
     searchCalls |-> 0, modelCalls |-> 0, model |-> "none",
     titleBefore |-> Null, title |-> Null, titleCalls |-> 0,
     contextThrew |-> FALSE, generationThrew |-> FALSE,
     writeFailsAt |-> 0, writes |-> 0, rejected |-> FALSE,
     secondResponse |-> FALSE, escaped |-> FALSE]

\* createResponseStream of fodmapChat: the whole reply as one chunk
createResponseStream(responseText) == <<responseText>>

\* createJsonStream: one delta per chunk that is not empty
createJsonStream(chunks, sessionId, foodResults) ==
    LET kept == SelectSeq(chunks, LAMBDA chunk : chunk # << >>)
    IN  [i \in 1..Len(kept) |-> delta(kept[i], sessionId, foodResultsOf(foodResults))]

\* createStreamedChunks of fodmapChatStream: one delta per word, then finalDelta
createStreamedChunks(responseText, sessionId, searchResults) ==
    LET words == split(responseText)
    IN  [i \in 1..Len(words) |-> delta(words[i], sessionId, foodResultsOf(searchResults))]
        \o <<finalDeltaOf(sessionId, foodResultsOf(searchResults))>>

\* a fodmapChat that searches the catalog before it validates the body
fodmapChatSearchFirst(s, body, generated) ==
    LET searched == [Taken("fodmapChat", body) EXCEPT !.searchCalls = 1]
        unavailable ==
            serviceUnavailable("Service temporarily unavailable. Please try again later.")
    IN  IF invalidMessages(body)
        THEN [searched EXCEPT
                !.status = badRequest("Invalid or missing messages in the request body").status,
                !.error = "Invalid or missing messages in the request body"]
        ELSE [searched EXCEPT !.status = unavailable.status,
                              !.error = unavailable.body.error]

\* fodmapChat up to `await chatHistory.getContext()`: s is what initialize left,
\* generated the outcome of the model call.  The reply stream is made and the
\* handler awaits the session title; an invalid body or a throw ends the handler
\* before that.
fodmapChat(s, body, generated) ==
    IF invalidMessages(body)
    THEN [Taken("fodmapChat", body) EXCEPT
            !.status = badRequest("Invalid or missing messages in the request body").status,
            !.error = "Invalid or missing messages in the request body"]
    ELSE LET sessionId == sessionIdOf(body)
             question == lastContent(body)
             searchResults == searchFoods(s.foods, question)
             grounded == [Taken("fodmapChat", body) EXCEPT
                            !.sessionId = sessionId,
                            !.historySessionId = sessionId,
                            !.model = modelOf,
                            !.searchCalls = 1,
                            !.modelCalls = IF s.threw THEN 0 ELSE 1,
                            !.contextThrew = s.threw,
                            !.generationThrew = ~s.threw /\ generated.threw,
                            !.searchResults = searchResults,
                            !.contextInfo = contextInfoOf(searchResults)]
             unavailable ==
                 serviceUnavailable("Service temporarily unavailable. Please try again later.")
         IN  IF s.threw \/ generated.threw
             THEN [grounded EXCEPT !.status = unavailable.status,
                                   !.error = unavailable.body.error]
             ELSE [grounded EXCEPT
                     !.phase = "titleLookup",
                     !.replyText = generated.text,
                     !.streamCreated = TRUE,
                     !.jsonStream = createJsonStream(createResponseStream(generated.text),
                                                     sessionId, searchResults)]

\* fodmapChat: `return data(jsonStream, ...)`, the stream handed to the client
fodmapChatReturn(c) ==
    [c EXCEPT !.phase = "done", !.status = 200, !.out = c.jsonStream, !.ended = TRUE]

\* fodmapChat: the catch of a throw while the title is read or derived
fodmapChatCatch(c) ==
    LET unavailable ==
            serviceUnavailable("Service temporarily unavailable. Please try again later.")
    IN  [c EXCEPT !.phase = "done", !.status = unavailable.status,
                  !.error = unavailable.body.error]

\* fodmapChatStream: s is what initialize left, generated the outcome of the model call
fodmapChatStream(s, body, generated) ==
    IF invalidMessages(body)
    THEN [Taken("fodmapChatStream", body) EXCEPT
            !.status = badRequest("Invalid or missing messages in the request body").status,
            !.error = "Invalid or missing messages in the request body"]
    ELSE LET sessionId == sessionIdOf(body)
             question == lastContent(body)
             searchResults == searchFoods(s.foods, question)
             grounded == [Taken("fodmapChatStream", body) EXCEPT
                            !.sessionId = sessionId,
                            !.historySessionId = sessionId,
                            !.model = modelOf,
                            !.searchCalls = 1,
                            !.modelCalls = IF s.threw THEN 0 ELSE 1,
                            !.contextThrew = s.threw,
                            !.generationThrew = ~s.threw /\ generated.threw,
                            !.searchResults = searchResults,
                            !.contextInfo = contextInfoOf(searchResults)]
             unavailable ==
                 serviceUnavailable("Service temporarily unavailable. Please try again later.")
         IN  IF s.threw \/ generated.threw
             THEN [grounded EXCEPT !.status = unavailable.status,
                                   !.error = unavailable.body.error]
             ELSE [grounded EXCEPT
                     !.status = 200,
                     !.replyText = generated.text,
                     !.words = split(generated.text),
                     !.out = createStreamedChunks(generated.text, sessionId, searchResults),
                     !.ended = TRUE]

\* the texts of generateMockResponse and of the fallback for an empty model
\* reply, abridged to their first words; their single spaces and blank lines are kept
NoInformation == <<"N", "o", "n", "e", "\n", "\n", "<", "<", ">", ">">>
SorryText == <<"S", "o", "r", "r", "y", ",", " ", "I">>

\* generateMockResponse of local-server.js
generateMockResponse(question, searchResults) ==
    IF Len(searchResults) = 0 THEN NoInformation
    ELSE LET food == searchResults[1]
             rating == getFoodRating(food)
             emoji == IF rating.safeForLowFodmap THEN CheckMark
                      ELSE IF rating.rating = "moderate" THEN WarningSign ELSE CrossMark
         IN  <<emoji, " ">> \o food.name \o <<"\n", "\n">>
             \o toUpperCase(ratingText(food.rating))

\* aiResponse of the local server's chat routes
aiResponseOf(lastMessage, searchResults, generated) ==
    IF azureOpenAI
    THEN IF generated.threw THEN generateMockResponse(lastMessage, searchResults)
         ELSE IF generated.text = << >> THEN SorryText
         ELSE generated.text
    ELSE generateMockResponse(lastMessage, searchResults)

\* the callback the local streaming route maps over the words, with the
\* write after the timer
callbackStepsSleepFirst(handler, word) ==
    IF handler = "localChatStream" THEN <<"sleep", "write">>
    ELSE IF trim(word) # << >> THEN <<"write", "sleep">> ELSE << >>

\* the async callback mapped over the words: the streaming route writes every
\* word and then awaits a timer; the other route does so for the words that
\* are not white space and nothing for the others
callbackSteps(handler, word) ==
    IF handler = "localChatStream" THEN <<"write", "sleep">>
    ELSE IF trim(word) # << >> THEN <<"write", "sleep">> ELSE << >>

\* the next response.write of the request throws
writeThrows(c) == c.writeFailsAt = c.writes + 1

\* response.write(JSON.stringify(d) + '\n'): the client gets the delta unless
\* the write throws
write(c, d) ==
    [c EXCEPT !.writes = @ + 1,
              !.out = IF writeThrows(c) THEN @ ELSE Append(@, d)]

\* callback i runs from step pos until it awaits a timer, returns, or throws
\* at a write: the promise of an async callback that throws is rejected
RECURSIVE runCallback(_, _, _)
runCallback(c, i, pos) ==
    LET steps == callbackSteps(c.handler, c.words[i])
        d == delta(c.words[i], c.sessionId, localFoodResultsOf(c.searchResults))
    IN  IF pos > Len(steps) THEN [c EXCEPT !.cb[i] = [pos |-> pos, timer |-> FALSE]]
        ELSE IF steps[pos] = "sleep"
        THEN [c EXCEPT !.cb[i] = [pos |-> pos + 1, timer |-> TRUE]]
        ELSE IF writeThrows(c)
        THEN [write(c, d) EXCEPT !.cb[i] = [pos |-> Len(steps) + 1, timer |-> FALSE],
                                 !.rejected = TRUE]
        ELSE runCallback(write(c, d), i, pos + 1)

\* words.map(async ...): the callbacks are started in the order of the words,
\* each running up to its first await
RECURSIVE mapCallbacks(_, _)
mapCallbacks(c, i) ==
    IF i > Len(c.words) THEN c ELSE mapCallbacks(runCallback(c, i, 1), i + 1)

callbackSettled(c, i) ==
    /\ ~c.cb[i].timer
    /\ c.cb[i].pos > Len(callbackSteps(c.handler, c.words[i]))

\* messages?.[messages.length - 1]?.content || ''
lastMessageOf(body) ==
    IF truthyText(lastContent(body)) THEN lastContent(body) ELSE << >>

\* a chat route of the local server, from the request to `await Promise.all`
localChatStart(handler, s, body, generated, failAt) ==
    IF s.threw
    THEN [Taken(handler, body) EXCEPT !.status = 500, !.error = "Chat service unavailable",
                                      !.contextThrew = TRUE]
    ELSE LET lastMessage == lastMessageOf(body)
             searchResults == searchFoods(s.foods, lastMessage)
             aiResponse == aiResponseOf(lastMessage, searchResults, generated)
             words == split(aiResponse)
         IN  mapCallbacks(
                 [Taken(handler, body) EXCEPT
                     !.phase = "awaiting",
                     !.writeFailsAt = failAt,
                     !.status = 200,
                     !.sessionId = "local-session",
                     !.searchCalls = 1,
                     !.modelCalls = IF azureOpenAI THEN 1 ELSE 0,
                     !.generationThrew = azureOpenAI /\ generated.threw,
                     !.model = IF azureOpenAI /\ ~generated.threw THEN "AzureChatOpenAI"
                               ELSE "mock",
                     !.searchResults = searchResults,
                     !.contextInfo = localContextInfoOf(searchResults),
                     !.replyText = aiResponse,
                     !.words = words,
                     !.cb = [i \in 1..Len(words) |-> [pos |-> 1, timer |-> FALSE]]],
                 1)

\* the catch of a local chat route once writeHead(200) has been called:
\* response.status(500).json(...) on a response whose headers are sent.  Express
\* cannot set the headers of a second response and throws from json(), inside
\* the catch, so the exception leaves the handler and response.end() is not called.
localChatCatch(c) ==
    [c EXCEPT !.phase = "done", !.secondResponse = TRUE, !.escaped = TRUE]

\* what follows `await Promise.all`: a rejected promise is thrown into the
\* catch; else the streaming route writes finalDelta, and both end the response
localChatFinish(c) ==
    IF c.rejected THEN localChatCatch(c)
    ELSE IF c.handler = "localChatStream"
    THEN LET final == localFinalDeltaOf(c.sessionId, localFoodResultsOf(c.searchResults))
         IN  IF writeThrows(c) THEN localChatCatch(write(c, final))
             ELSE [write(c, final) EXCEPT !.phase = "done", !.ended = TRUE]
    ELSE [c EXCEPT !.phase = "done", !.ended = TRUE]

-----------------------------------------------------------------------------
(* Inputs *)

Empty == << >>
Blank == <<" ">>
QueryBan == <<"b", "a", "n">>
QueryPaddedBan == <<" ", "B", "a", "n", " ">>
QueryUpper == <<"B", "A", "N", "A", "N", "A">>
QueryRi == <<"r", "i">>
QueryAi == <<"a", "i">>
QueryKiwi == <<"k", "i", "w", "i">>
QueryA == <<"a">>
QuerySentence == <<"I", "s", " ", "b", "a", "n", "a", "n", "a", " ", "l", "o", "w", " ",
                   "F", "O", "D", "M", "A", "P", "?">>

Queries == {Empty, Blank, QueryBan, QueryPaddedBan, QueryUpper, QueryRi, QueryAi,
            QueryKiwi, QueryA, QuerySentence}

IdInputs == {"f1", "f2", IdOf(MaxFoods), "missing"}
CategoryInputs == {Fruit, toUpperCase(Grain), QueryKiwi}

QueryAp == <<"a", "p">>
QueryParams == {NullText, Empty, QueryA, QueryAp, QueryUpper}
RatingParams == {Null, "low", "bogus"}
IdParams == {Null, "", "f1", "missing"}

ReplyTexts == UNION {[1..n -> {"a", " "}] : n \in 0..MaxReply}
GenerationOutcomes ==
    {[threw |-> TRUE, text |-> << >>]} \cup {[threw |-> FALSE, text |-> t] : t \in ReplyTexts}

ChatBodies ==
    {NoMessagesBody,
     ChatBody(<< >>, Null),
     ChatBody(<<ChatMessage(Empty)>>, Null),
     ChatBody(<<ChatMessage(NullText)>>, Null),
     ChatBody(<<ChatMessage(QueryUpper)>>, Null),
     ChatBody(<<ChatMessage(QueryUpper)>>, "s1"),
     ChatBody(<<ChatMessage(QuerySentence)>>, Null),
     ChatBody(<<ChatMessage(QueryKiwi), ChatMessage(QueryBan)>>, "s1")}

NoOp == [op |-> "none"]
NoHttp == [endpoint |-> "none"]
NoChat == [handler |-> "none", phase |-> "idle"]
\* getFoodRating has not been called
NoRating == [calls |-> 0]
\* no handler has been started
NoRequests == [r \in 1..MaxRequests |-> [pc |-> "none"]]

-----------------------------------------------------------------------------
(* The catalog operations, called directly *)

\* what initialize leaves in the service, and the read it made; a process is
\* followed through MaxReads reads of the data file
Initialized(s) ==
    /\ s.read => reads < MaxReads
    /\ foods' = s.foods
    /\ initialized' = s.initialized
    /\ reads' = IF s.read THEN reads + 1 ELSE reads

CallSearchFoods ==
    \E query \in Queries :
        LET s == initialize
        IN  /\ Initialized(s)
            /\ lastOp' = [op |-> "searchFoods", query |-> query, threw |-> s.threw,
                          loadFailed |-> ~s.initialized,
                          result |-> IF s.threw THEN << >>
                                     ELSE IF variant = "rating"
                                          THEN searchFoods(s.foods, query)
                                          ELSE searchFoodsCategoryVariant(s.foods, query)]
            /\ http' = NoHttp
            /\ UNCHANGED <<dataSource, fileState, variant, azureOpenAiEndpoint, azureOpenAI, chat, inflight, rated>>

CallGetFoodById ==
    \E id \in IdInputs :
        LET s == initialize
        IN  /\ Initialized(s)
            /\ lastOp' = [op |-> "getFoodById", id |-> id, threw |-> s.threw,
                          loadFailed |-> ~s.initialized,
                          result |-> IF s.threw THEN UndefinedFood
                                     ELSE getFoodById(s.foods, id)]
            /\ http' = NoHttp
            /\ UNCHANGED <<dataSource, fileState, variant, azureOpenAiEndpoint, azureOpenAI, chat, inflight, rated>>

CallGetFoodsByRating ==
    /\ variant = "rating"
    /\ \E rating \in {"low", "moderate", "high"} :
        LET s == initialize
        IN  /\ Initialized(s)
            /\ lastOp' = [op |-> "getFoodsByRating", rating |-> rating, threw |-> s.threw,
                          loadFailed |-> ~s.initialized,
                          result |-> IF s.threw THEN << >>
                                     ELSE getFoodsByRating(s.foods, rating)]
            /\ http' = NoHttp
            /\ UNCHANGED <<dataSource, fileState, variant, azureOpenAiEndpoint, azureOpenAI, chat, inflight, rated>>

CallGetFoodsByCategory ==
    /\ variant = "category"
    /\ \E category \in CategoryInputs :
        LET s == initialize
        IN  /\ Initialized(s)
            /\ lastOp' = [op |-> "getFoodsByCategory", category |-> category,
                          threw |-> s.threw, loadFailed |-> ~s.initialized,
                          result |-> IF s.threw THEN << >>
                                     ELSE getFoodsByCategory(s.foods, category)]
            /\ http' = NoHttp
            /\ UNCHANGED <<dataSource, fileState, variant, azureOpenAiEndpoint, azureOpenAI, chat, inflight, rated>>

CallGetAllFoods ==
    /\ variant = "rating"
    /\ LET s == initialize
       IN  /\ Initialized(s)
           /\ lastOp' = [op |-> "getAllFoods", threw |-> s.threw,
                         loadFailed |-> ~s.initialized,
                         result |-> IF s.threw THEN << >> ELSE getAllFoods(s.foods)]
           /\ http' = NoHttp
            /\ UNCHANGED <<dataSource, fileState, variant, azureOpenAiEndpoint, azureOpenAI, chat, inflight, rated>>

\* a GET of the search route: the handler runs to its response
HttpSearch(endpoint) ==
    /\ variant = "rating"
    /\ \E query \in QueryParams, rating \in RatingParams, id \in IdParams :
        LET called == callsService(query, rating, id)
            s == IF called THEN initialize
                 ELSE [foods |-> foods, initialized |-> initialized, threw |-> FALSE,
                       read |-> FALSE]
            response == IF endpoint = "azure" THEN fodmapSearch(s, query, rating, id)
                        ELSE localSearch(s, query, rating, id)
        IN  /\ Initialized(s)
            /\ http' = [endpoint |-> endpoint, q |-> query, rating |-> rating, id |-> id,
                        loadFailed |-> called /\ ~s.initialized,
                        status |-> response.status, body |-> response.body]
            /\ lastOp' = NoOp
            /\ UNCHANGED <<dataSource, fileState, variant, azureOpenAiEndpoint, azureOpenAI, chat, inflight, rated>>

AzureSearch == HttpSearch("azure")
LocalSearch == HttpSearch("local")


\* the process before its first request, over a data file of at most longest records
InitService(longest) ==
    /\ variant \in {"rating", "category"}
    /\ dataSource \in DataSources(variant, longest)
    /\ fileState \in {"ok", "missing", "corrupt"}
    /\ foods = << >>
    /\ initialized = FALSE
    /\ lastOp = NoOp
    /\ http = NoHttp
    /\ azureOpenAiEndpoint = FALSE
    /\ azureOpenAI = FALSE
    /\ chat = NoChat
    /\ reads = 0
    /\ inflight = NoRequests
    /\ rated = NoRating

InitCatalog == InitService(MaxFoods)

NextCatalog ==
    \/ CallSearchFoods
    \/ CallGetFoodById
    \/ CallGetFoodsByRating
    \/ CallGetFoodsByCategory
    \/ CallGetAllFoods

\* the catalog operations over catalogs long enough to meet the search limit
SpecCatalog == InitCatalog /\ [][NextCatalog]_vars

InitHttp == InitService(MaxHttpFoods)

NextHttp ==
    \/ NextCatalog
    \/ AzureSearch
    \/ LocalSearch

\* the catalog operations and the HTTP search handlers over short catalogs
SpecHttp == InitHttp /\ [][NextHttp]_vars

\* data files all of whose records have the rating low
LowCatalogs ==
    {[i \in 1..n |-> [RatingFood(i, FALSE) EXCEPT !.rating = "low"]] : n \in 0..MaxFoods}

InitHttpLong ==
    /\ variant = "rating"
    /\ dataSource \in DataSources("rating", MaxHttpFoods) \cup LowCatalogs
    /\ fileState \in {"ok", "missing", "corrupt"}
    /\ foods = << >>
    /\ initialized = FALSE
    /\ lastOp = NoOp
    /\ http = NoHttp
    /\ azureOpenAiEndpoint = FALSE
    /\ azureOpenAI = FALSE
    /\ chat = NoChat
    /\ reads = 0
    /\ inflight = NoRequests
    /\ rated = NoRating

NextHttpLong ==
    \/ AzureSearch
    \/ LocalSearch

\* the HTTP search handlers, also over catalogs with more records of one
\* rating than searchFoods returns
SpecHttpLong == InitHttpLong /\ [][NextHttpLong]_vars

-----------------------------------------------------------------------------
(* The chat requests *)

Unchanged ==
    [foods |-> foods, initialized |-> initialized, threw |-> FALSE, read |-> FALSE]

\* POST fodmap/chat of the Azure functions: the handler runs to its response, or
\* to the await of the session title
FodmapChat ==
    /\ chat.phase = "idle"
    /\ \E body \in ChatBodies, generated \in GenerationOutcomes,
          storedTitle \in StoredTitles :
        LET s == IF invalidMessages(body) THEN Unchanged ELSE initialize
        IN  /\ Initialized(s)
            /\ chat' = WithSession(fodmapChat(s, body, generated), storedTitle)
    /\ UNCHANGED <<dataSource, fileState, variant, lastOp, http, azureOpenAiEndpoint,
                   azureOpenAI, inflight, rated>>

\* chatHistory.getContext() settles: it throws, or gives the stored title; the
\* handler returns when there is one and else calls the model for a title
TitleLookedUp ==
    /\ chat.phase = "titleLookup"
    /\ \E throws \in BOOLEAN :
        chat' = IF throws THEN fodmapChatCatch(chat)
                ELSE IF truthy(chat.title) THEN fodmapChatReturn(chat)
                ELSE [chat EXCEPT !.phase = "titleGeneration"]
    /\ UNCHANGED <<dataSource, fileState, variant, foods, initialized, lastOp, http,
                   azureOpenAiEndpoint, azureOpenAI, reads, inflight, rated>>

\* the model call for the title settles: it throws, or the title is stored
TitleGenerated ==
    /\ chat.phase = "titleGeneration"
    /\ \E throws \in BOOLEAN :
        chat' = IF throws
                THEN fodmapChatCatch([chat EXCEPT !.titleCalls = @ + 1])
                ELSE fodmapChatReturn([chat EXCEPT !.titleCalls = @ + 1,
                                                   !.title = GeneratedTitle])
    /\ UNCHANGED <<dataSource, fileState, variant, foods, initialized, lastOp, http,
                   azureOpenAiEndpoint, azureOpenAI, reads, inflight, rated>>

\* POST fodmap/chat/stream of the Azure functions: the handler runs to its response
FodmapChatStream ==
    /\ chat.phase = "idle"
    /\ \E body \in ChatBodies, generated \in GenerationOutcomes,
          storedTitle \in StoredTitles :
        LET s == IF invalidMessages(body) THEN Unchanged ELSE initialize
        IN  /\ Initialized(s)
            /\ chat' = WithSession(fodmapChatStream(s, body, generated), storedTitle)
    /\ UNCHANGED <<dataSource, fileState, variant, lastOp, http, azureOpenAiEndpoint,
                   azureOpenAI, inflight, rated>>

\* POST of a chat route of the local server, up to `await Promise.all`
LocalChatRequest(handler, failures) ==
    /\ chat.phase = "idle"
    /\ \E body \in ChatBodies, generated \in GenerationOutcomes, failAt \in failures :
        LET s == initialize
        IN  /\ Initialized(s)
            /\ chat' = localChatStart(handler, s, body, generated, failAt)
    /\ UNCHANGED <<dataSource, fileState, variant, lastOp, http, azureOpenAiEndpoint,
                   azureOpenAI, inflight, rated>>

\* a request whose writes all succeed
LocalChatStart(handler) == LocalChatRequest(handler, {0})

LocalChatStream == LocalChatStart("localChatStream")
LocalChat == LocalChatStart("localChat")

\* the timer a callback awaits fires and the callback runs on
TimerFires ==
    /\ chat.phase = "awaiting"
    /\ \E i \in 1..Len(chat.words) :
        /\ chat.cb[i].timer
        /\ chat' = runCallback(chat, i, chat.cb[i].pos)
    /\ UNCHANGED <<dataSource, fileState, variant, foods, initialized, lastOp, http,
                   azureOpenAiEndpoint, azureOpenAI, reads, inflight, rated>>

\* every callback has returned: Promise.all resolves and the handler runs on
PromiseAllResolved ==
    /\ chat.phase = "awaiting"
    /\ \A i \in 1..Len(chat.words) : callbackSettled(chat, i)
    /\ chat' = localChatFinish(chat)
    /\ UNCHANGED <<dataSource, fileState, variant, foods, initialized, lastOp, http,
                   azureOpenAiEndpoint, azureOpenAI, reads, inflight, rated>>

\* the response is complete; the process waits for the next request
ResponseDelivered ==
    /\ chat.phase = "done"
    /\ chat' = NoChat
    /\ UNCHANGED <<dataSource, fileState, variant, foods, initialized, lastOp, http,
                   azureOpenAiEndpoint, azureOpenAI, reads, inflight, rated>>

InitChat ==
    /\ variant = "rating"
    /\ dataSource \in DataSources("rating", MaxChatFoods)
    /\ fileState \in {"ok", "missing"}
    /\ foods = << >>
    /\ initialized = FALSE
    /\ lastOp = NoOp
    /\ http = NoHttp
    /\ azureOpenAiEndpoint \in BOOLEAN
    /\ azureOpenAI \in (IF azureOpenAiEndpoint THEN BOOLEAN ELSE {FALSE})
    /\ chat = NoChat
    /\ reads = 0
    /\ inflight = NoRequests
    /\ rated = NoRating

NextChat ==
    \/ FodmapChat
    \/ TitleLookedUp
    \/ TitleGenerated
    \/ FodmapChatStream
    \/ LocalChatStream
    \/ LocalChat
    \/ TimerFires
    \/ PromiseAllResolved
    \/ ResponseDelivered

\* the chat handlers, one request at a time
SpecChat == InitChat /\ [][NextChat]_vars

\* requests of the local server one of whose writes throws
LocalChatStreamWriteFails == LocalChatRequest("localChatStream", 1..MaxFailAt)
LocalChatWriteFails == LocalChatRequest("localChat", 1..MaxFailAt)

NextChatWrites ==
    \/ LocalChatStream
    \/ LocalChat
    \/ LocalChatStreamWriteFails
    \/ LocalChatWriteFails
    \/ TimerFires
    \/ PromiseAllResolved
    \/ ResponseDelivered

\* the chat routes of the local server, a write of the response failing or not
SpecChatWrites == InitChat /\ [][NextChatWrites]_vars

\* the process behind the chat handlers with a catalog long enough for a search
\* to meet its limit; the data file loads and no generative model is configured
InitChatLong ==
    /\ InitService(MaxFoods)
    /\ variant = "rating"
    /\ fileState = "ok"

\* the chat handlers over long catalogs
SpecChatLong == InitChatLong /\ [][NextChat]_vars

-----------------------------------------------------------------------------
(* Requests in flight together *)

\* The handlers are async functions on one event loop: a handler runs without
\* interruption from one await to the next, and the handlers of other requests
\* run while it awaits.  fodmapChat and fodmapChatStream await the request body
\* before they call the catalog, and the model call after.

Requests == 1..MaxRequests
Questions == {QueryUpper, QueryRi, QueryKiwi}

\* the handler of request r starts and awaits request.json()
RequestArrives ==
    \E r \in Requests, handler \in {"fodmapChat", "fodmapChatStream"},
       question \in Questions :
        /\ inflight[r].pc = "none"
        /\ inflight' = [inflight EXCEPT ![r] =
                [pc |-> "awaitingJson", handler |-> handler, question |-> question,
                 loadedOnArrival |-> initialized]]
        /\ UNCHANGED <<dataSource, fileState, variant, foods, initialized, lastOp,
                       http, azureOpenAiEndpoint, azureOpenAI, chat, reads, rated>>

\* the body of request r is there: the handler runs from the validation over
\* searchFoods to `await fodmapChainWithHistory.invoke`
BodyParsed ==
    \E r \in Requests :
        /\ inflight[r].pc = "awaitingJson"
        /\ LET s == initialize
           IN  /\ Initialized(s)
               /\ inflight' = [inflight EXCEPT ![r] =
                       [pc |-> "invoking", handler |-> @.handler,
                        question |-> @.question,
                        loadedOnArrival |-> @.loadedOnArrival,
                        catalog |-> s.foods,
                        searchResults |-> searchFoods(s.foods, @.question)]]
        /\ UNCHANGED <<dataSource, fileState, variant, lastOp, http,
                       azureOpenAiEndpoint, azureOpenAI, chat, rated>>

\* the model call of request r returns and the handler runs to its response
ModelReplied ==
    \E r \in Requests :
        /\ inflight[r].pc = "invoking"
        /\ inflight' = [inflight EXCEPT ![r].pc = "responded"]
        /\ UNCHANGED <<dataSource, fileState, variant, foods, initialized, lastOp,
                       http, azureOpenAiEndpoint, azureOpenAI, chat, reads, rated>>

\* the response of request r has been sent
RequestEnds ==
    \E r \in Requests :
        /\ inflight[r].pc = "responded"
        /\ inflight' = [inflight EXCEPT ![r] = [pc |-> "none"]]
        /\ UNCHANGED <<dataSource, fileState, variant, foods, initialized, lastOp,
                       http, azureOpenAiEndpoint, azureOpenAI, chat, reads, rated>>

InitConcurrent ==
    /\ InitService(MaxChatFoods)
    /\ variant = "rating"

NextConcurrent ==
    \/ RequestArrives
    \/ BodyParsed
    \/ ModelReplied
    \/ RequestEnds

\* the chat handlers of the Azure functions, several requests in flight
SpecConcurrent == InitConcurrent /\ [][NextConcurrent]_vars

-----------------------------------------------------------------------------
(* getFoodRating, called on a record *)

\* records of the rating variant, the rating field also off its three values
RatingVariantRecords ==
    {[RatingFood(1, FALSE) EXCEPT !.rating = rating, !.safeServing = safeServing] :
        rating \in {"low", "moderate", "high", "medium", "LOW", ""},
        safeServing \in {OneMedium, << >>}}

Codes == 0..MaxCode

\* records of the category variant, the fodmap field also off its two values
\* and the severity codes also off 0, 1 and 2
CategoryVariantRecords ==
    {[CategoryFood(1, FALSE) EXCEPT !.fodmap = fodmap, !.qty = qty,
                                    !.details = Details(d[1], d[2], d[3], d[4])] :
        fodmap \in {"low", "high", "moderate", "LOW"},
        qty \in {UndefinedText, << >>, OneMedium},
        d \in Codes \X Codes \X Codes \X Codes}

\* getFoodRating of the class the process runs
getFoodRatingOf(food) ==
    IF variant = "rating" THEN getFoodRating(food) ELSE getFoodRatingCategoryVariant(food)

\* fodmapService.getFoodRating(food): the result, kept with the result of the
\* first call on the same record and the catalog operation that preceded it
RateRecord(food) ==
    LET result == getFoodRatingOf(food)
    IN  /\ rated' = IF rated.calls > 0 /\ rated.food = food
                    THEN [rated EXCEPT !.calls = 2, !.last = result]
                    ELSE [calls |-> 1, food |-> food, first |-> result, last |-> result,
                          opBefore |-> lastOp]
        /\ UNCHANGED <<dataSource, fileState, variant, foods, initialized, lastOp, http,
                       azureOpenAiEndpoint, azureOpenAI, chat, reads, inflight>>

\* the first call, on any record
RateAnyRecord ==
    /\ rated.calls = 0
    /\ \E food \in (IF variant = "rating" THEN RatingVariantRecords
                     ELSE CategoryVariantRecords) : RateRecord(food)

\* the second call, on the same record
RateAgain ==
    /\ rated.calls = 1
    /\ RateRecord(rated.food)

\* a call on a record of the catalog, as the handlers make it on a search result
RateCatalogRecord ==
    \E i \in 1..Len(foods) : RateRecord(foods[i])

InitRating == InitService(MaxChatFoods)

NextRating ==
    \/ RateAnyRecord
    \/ RateAgain

\* getFoodRating on every record of the input sets, twice
SpecRating == InitRating /\ [][NextRating]_vars

NextRatedCatalog ==
    \/ NextCatalog
    \/ RateCatalogRecord

\* getFoodRating on the records of the catalog, between the catalog operations
SpecRatedCatalog == InitRating /\ [][NextRatedCatalog]_vars

-----------------------------------------------------------------------------
(* Properties of the catalog operations and of the HTTP search handlers *)

\* the positions of the catalog whose record the search of the running variant keeps
MatchingPositions(query) ==
    {i \in 1..Len(foods) :
        IF variant = "rating" THEN matchesName(foods[i], searchTermOf(query))
        ELSE matchesNameOrCategory(foods[i], searchTermOf(query))}

\* text t occurs in the record's name (or, category variant, its name or category),
\* letter case ignored
NameContains(food, t) ==
    \/ includes(toLowerCase(food.name), toLowerCase(t))
    \/ variant = "category" /\ includes(toLowerCase(food.category), toLowerCase(t))

C7_FirstTenInCatalogOrder ==
    lastOp.op = "searchFoods" =>
        LET M == MatchingPositions(lastOp.query)
            \* the position of the k-th matching record of the catalog
            kth(k) == CHOOSE i \in M : Cardinality({j \in M : j <= i}) = k
        IN  /\ Len(lastOp.result) = Min(SearchLimit, Cardinality(M))
            /\ Len(lastOp.result) <= SearchLimit
            /\ \A k \in 1..Len(lastOp.result) : lastOp.result[k] = foods[kth(k)]

\* a search with more than 10 matching records, a record that does not match
\* lying among the first of them
C7_Witness ==
    /\ lastOp.op = "searchFoods"
    /\ Cardinality(MatchingPositions(lastOp.query)) > SearchLimit
    /\ Len(lastOp.result) = SearchLimit
    /\ \E i \in 1..SearchLimit : i \notin MatchingPositions(lastOp.query)

\* the request's q parameter decides the response: no id, no rating to list by
QueryDecides ==
    /\ http.endpoint # "none"
    /\ http.q # NullText
    /\ ~truthy(http.id)
    /\ ~(truthy(http.rating) /\ http.rating \in {"low", "moderate", "high"})

(* C8, as claimed: a search request with a q parameter of fewer than 2      *)
(* characters (length 0 or 1) is answered with 400, one with a q of 2 or    *)
(* more characters with 200 and a list of results.  Stated for the requests *)
(* in which q decides the response (no id, no rating).                      *)
C8_ShortQueryRejected ==
    QueryDecides =>
        IF Len(http.q) < MinQueryLength THEN http.status = 400
        ELSE http.status = 200 /\ http.body.kind = "list"

(* C9, as claimed: a search by an id that matches no record is answered     *)
(* with 404 and {error: "Food not found"} by both handlers, and a search by *)
(* an id that matches with {food, rating} of exactly that record.           *)
C9_UnknownIdNotFound ==
    (http.endpoint # "none" /\ truthy(http.id)) =>
        IF \E i \in 1..Len(foods) : foods[i].id = http.id
        THEN /\ http.status = 200
             /\ http.body.kind = "item"
             /\ http.body.food.id = http.id
             /\ http.body.food \in {foods[i] : i \in 1..Len(foods)}
             /\ http.body.rating.food = http.body.food
        ELSE /\ http.status = 404
             /\ http.body = [kind |-> "error", error |-> "Food not found"]

(* C10: when loading the catalog fails, no catalog operation throws to its  *)
(* caller, each answers as for an empty catalog, and an HTTP search for a   *)
(* query of 2 or more characters returns 200 with results = [] and          *)
(* total = 0.                                                               *)
C10_FailedLoadIsEmptyCatalog ==
    /\ (lastOp.op # "none" /\ lastOp.loadFailed) =>
          /\ ~lastOp.threw
          /\ IF lastOp.op = "getFoodById" THEN lastOp.result = UndefinedFood
             ELSE lastOp.result = << >>
    /\ (QueryDecides /\ Len(http.q) >= MinQueryLength /\ http.loadFailed) =>
          /\ http.status = 200
          /\ http.body.kind = "list"
          /\ http.body.results = << >>
          /\ http.body.total = 0

\* an HTTP search for BANANA over a data file that holds records and cannot be parsed
C10_Witness ==
    /\ QueryDecides
    /\ http.q = QueryUpper
    /\ http.loadFailed
    /\ fileState = "corrupt"
    /\ Len(dataSource) > 0
    /\ http.status = 200

-----------------------------------------------------------------------------
(* Properties of the chat handlers *)

\* a chat request whose response stream is complete
StreamComplete == chat.phase = "done" /\ chat.status = 200

\* delta.content of the deltas written so far, joined in emission order
JoinedContent == join([k \in 1..Len(chat.out) |-> chat.out[k].content], << >>)

(* C1, as claimed: for every chat response stream and every reply text,     *)
(* white space included, the delta.content of all deltas joined in emission *)
(* order is the full reply text.                                            *)
C1_ConcatenationLaw == StreamComplete => JoinedContent = chat.replyText

(* C2, as claimed: every successful chat response stream holds exactly one  *)
(* delta with the terminal marker finishReason = "stop", and it is the last *)
(* delta of the stream, for each chat endpoint and every reply text.        *)
C2_OneTerminalDeltaLast ==
    StreamComplete =>
        /\ Len(chat.out) >= 1
        /\ chat.out[Len(chat.out)].finishReason = "stop"
        /\ \A k \in 1..(Len(chat.out) - 1) : chat.out[k].finishReason # "stop"

(* C3: in the local server's streaming route the deltas are written in the  *)
(* order of the chunks of the reply text under every interleaving of the    *)
(* callbacks and their timers, one delta per chunk, and the terminal delta  *)
(* is written only after the delta of every chunk.                          *)
C3_LocalStreamInChunkOrder ==
    (chat.handler = "localChatStream" /\ chat.status = 200) =>
        LET chunks == split(chat.replyText)
        IN  /\ Len(chat.out) <= Len(chunks) + 1
            /\ \A k \in 1..Len(chat.out) :
                IF chat.out[k].finishReason = "stop"
                THEN k = Len(chunks) + 1
                ELSE k <= Len(chunks) /\ chat.out[k].content = chunks[k]
            /\ chat.phase = "done" => Len(chat.out) = Len(chunks) + 1

\* the timer of a later chunk's callback has fired while that of an earlier
\* chunk's callback is still pending
C3_Witness ==
    /\ chat.handler = "localChatStream"
    /\ chat.phase = "awaiting"
    /\ \E i, j \in 1..Len(chat.words) :
        i < j /\ chat.cb[i].timer /\ callbackSettled(chat, j)

(* C4, as claimed: a chat request whose message list is missing or empty,   *)
(* or whose last message has no content, is answered with 400 and no delta  *)
(* is streamed, on every chat endpoint.                                     *)
C4_InvalidMessagesRejected ==
    (chat.handler # "none" /\ invalidMessages(chat.body)) =>
        chat.status = 400 /\ chat.out = << >>

BananaLowFodmap == <<"B", "a", "n", "a", "n", "a", ":", " ", "L", "O", "W", " ", "F", "O",
                     "D", "M", "A", "P">>

(* C5, as claimed: for the user message "Is banana low FODMAP?" over a      *)
(* catalog whose record f1 is Banana, rating low, the context build matches *)
(* f1, the prompt block contains "Banana: LOW FODMAP", and every delta of   *)
(* the reply stream carries foodResults containing f1.                      *)
C5_SentenceMatchesBanana ==
    (/\ StreamComplete
     /\ lastContent(chat.body) = QuerySentence
     /\ Len(foods) >= 1
     /\ foods[1].id = "f1" /\ foods[1].name = Banana /\ foods[1].rating = "low") =>
        /\ \E i \in 1..Len(chat.searchResults) : chat.searchResults[i].id = "f1"
        /\ includes(chat.contextInfo, BananaLowFodmap)
        /\ \A k \in 1..Len(chat.out) :
            /\ chat.out[k].foodResults.defined
            /\ \E i \in 1..Len(chat.out[k].foodResults.items) :
                chat.out[k].foodResults.items[i].id = "f1"


-----------------------------------------------------------------------------
(* Properties of loading the catalog *)

\* C11: over any sequence of catalog operations of one process, whether the
\* load succeeds or fails, the data file is read at most once.
C11_DataSourceReadAtMostOnce == reads <= 1

\* request r has called the catalog
HasSearched(r) == inflight[r].pc \in {"invoking", "responded"}

\* C12: when several requests call the catalog before it is loaded, a data file
\* that can be loaded is read once, and every request sees the whole catalog:
\* all the records of the data file (none when the load failed).
C12_OneLoadWholeCatalog ==
    /\ fileState = "ok" => reads <= 1
    /\ \A r \in Requests :
        HasSearched(r) =>
            inflight[r].catalog = (IF fileState = "ok" THEN dataSource ELSE << >>)

\* two requests arrived before the catalog was loaded, and both have searched a
\* catalog of several records
C12_Witness ==
    /\ fileState = "ok"
    /\ Len(dataSource) >= 2
    /\ \A r \in Requests :
        /\ HasSearched(r)
        /\ ~inflight[r].loadedOnArrival
    /\ reads = 1

-----------------------------------------------------------------------------
(* Properties of getFoodRating *)

\* the coarse rating field of a record: rating in the rating variant, fodmap
\* in the category variant
CoarseRating(food) == IF variant = "rating" THEN food.rating ELSE food.fodmap

\* C13: getFoodRating(food).safeForLowFodmap is true if and only if the coarse
\* rating field of the record equals low; for any other value it is false.
C13_SafeIffLow ==
    rated.calls > 0 =>
        (rated.last.safeForLowFodmap <=> CoarseRating(rated.food) = "low")

\* a record rated low and called safe, in either variant
C13_Witness ==
    /\ rated.calls > 0
    /\ CoarseRating(rated.food) = "low"
    /\ rated.last.safeForLowFodmap

SeverityWord(code) ==
    IF code = 1 THEN "medium" ELSE IF code = 2 THEN "high" ELSE "low"

WithZeroCodes(food) == [food EXCEPT !.details = Details(0, 0, 0, 0)]

\* C16: in the category variant the rating and safeForLowFodmap of
\* getFoodRating depend only on the fodmap field.  Every record gets the
\* rating and the safeForLowFodmap of the record that differs from it only by
\* having the codes 0, 0, 0, 0; so any two records that differ only in their
\* codes get the same.
C16_VerdictIgnoresCodes ==
    (variant = "category" /\ rated.calls > 0) =>
        LET reference == getFoodRatingOf(WithZeroCodes(rated.food))
        IN  /\ rated.last.rating = reference.rating
            /\ rated.last.safeForLowFodmap = reference.safeForLowFodmap
            /\ rated.last.rating = rated.food.fodmap

\* a record rated low whose four codes are all high: it is called low and safe
C16_Witness ==
    /\ variant = "category"
    /\ rated.calls > 0
    /\ rated.food.fodmap = "low"
    /\ rated.food.details = Details(2, 2, 2, 2)
    /\ rated.last.rating = "low"
    /\ rated.last.safeForLowFodmap
    /\ rated.last.components.polyols = "high"

-----------------------------------------------------------------------------
(* Properties of the deltas of a chat response *)

\* the session identifier the request asks for: the one of its context, or
\* else the one generated for it
RequestedSessionId(body) ==
    IF body.sessionId # Null /\ body.sessionId # "" THEN body.sessionId ELSE "uuid"

\* the handlers that keep a chat history
KeepsHistory(handler) == handler \in {"fodmapChat", "fodmapChatStream"}

\* C17: every delta of a chat response carries the same sessionId, the one of
\* the request's context when the client supplied one and else one generated
\* for the request, and the history store of the request is keyed by it.
C17_SessionIdOfRequest ==
    (chat.handler # "none" /\ chat.status = 200) =>
        /\ \A k \in 1..Len(chat.out) :
            chat.out[k].sessionId = RequestedSessionId(chat.body)
        /\ KeepsHistory(chat.handler) =>
            chat.historySessionId = RequestedSessionId(chat.body)

\* the latest user message as the handler of the request reads it
LatestMessage(c) ==
    IF KeepsHistory(c.handler) THEN lastContent(c.body) ELSE lastMessageOf(c.body)

\* C18: within one chat response every delta, the terminal one included,
\* carries the same foodResults, which comes from the search on the latest
\* user message; foodResults is absent on all deltas exactly when the search
\* returned no match.
C18_SameFoodResultsOnEveryDelta ==
    (chat.handler # "none" /\ chat.status = 200) =>
        LET matches == searchFoods(foods, LatestMessage(chat))
        IN  /\ chat.searchResults = matches
            /\ \A k \in 1..Len(chat.out) :
                /\ chat.out[k].foodResults = chat.out[1].foodResults
                /\ chat.out[k].foodResults.defined <=> Len(matches) > 0

\* a complete response of the streaming route of the local server: several
\* deltas and the terminal delta, all with the foods the search matched
C18_Witness ==
    /\ chat.handler = "localChatStream"
    /\ chat.phase = "done"
    /\ Len(chat.out) >= 3
    /\ chat.out[Len(chat.out)].finishReason = "stop"
    /\ chat.out[1].foodResults.defined
    /\ Len(chat.out[Len(chat.out)].foodResults.items) >= 1

\* the food a delta of the handler carries for a record of the search result:
\* a summary of the record on the Azure functions, the record itself on the
\* local server
CarriedFood(handler, food) ==
    IF KeepsHistory(handler) THEN foodSummary(food) ELSE food

\* C19 as stated: the foodResults of any delta holds at most 3 entries, the
\* first entries of the search result in search-result order, on every chat
\* endpoint and for every number of matches from 0 to 10.
C19_AtMostThreeFirstMatches ==
    (chat.handler # "none" /\ chat.status = 200) =>
        \A k \in 1..Len(chat.out) :
            LET items == chat.out[k].foodResults.items
            IN  /\ Len(items) = Min(FoodResultsLimit, Len(chat.searchResults))
                /\ \A i \in 1..Len(items) :
                    items[i] = CarriedFood(chat.handler, chat.searchResults[i])

\* C19, amended: the foodResults of any delta holds the first entries of the
\* search result in search-result order: at most 3 of them on the routes of
\* the local server, all of them (at most 10) on fodmapChat and fodmapChatStream.
C19_FirstMatchesInOrder ==
    (chat.handler # "none" /\ chat.status = 200) =>
        \A k \in 1..Len(chat.out) :
            LET items == chat.out[k].foodResults.items
                matches == Len(chat.searchResults)
            IN  /\ matches <= SearchLimit
                /\ Len(items) = IF KeepsHistory(chat.handler) THEN matches
                                ELSE Min(FoodResultsLimit, matches)
                /\ \A i \in 1..Len(items) :
                    items[i] = CarriedFood(chat.handler, chat.searchResults[i])

\* a search that met its limit of 10 behind fodmapChatStream: every delta
\* carries the 10 foods
C19_Witness ==
    /\ chat.handler = "fodmapChatStream"
    /\ chat.status = 200
    /\ Len(foods) > SearchLimit
    /\ Len(chat.searchResults) = SearchLimit
    /\ Len(chat.out) >= 2
    /\ \A k \in 1..Len(chat.out) : Len(chat.out[k].foodResults.items) = SearchLimit

\* C20: deriving the session title does not hold back the reply: once
\* fodmapChat has made the reply stream, the stream is what the client is
\* handed, without a wait for the title lookup or the title generation.
C20_TitleDoesNotHoldReply ==
    (chat.handler = "fodmapChat" /\ chat.streamCreated) =>
        /\ chat.status = 200
        /\ chat.out = chat.jsonStream

-----------------------------------------------------------------------------
(* Properties of the session title *)

\* C21: after a successful chat request on a session without a stored title
\* exactly one title generation call has been made and its result is the
\* session's title; on a session with a title no such call is made and the
\* title is unchanged.  For fodmapChat and fodmapChatStream.
C21_TitleDerivedOnce ==
    (KeepsHistory(chat.handler) /\ chat.phase = "done" /\ chat.status = 200) =>
        IF chat.titleBefore = Null
        THEN chat.titleCalls = 1 /\ chat.title = GeneratedTitle
        ELSE chat.titleCalls = 0 /\ chat.title = chat.titleBefore

-----------------------------------------------------------------------------
(* Properties of failures and of the choice of the model *)

TryAgainLater == "Service temporarily unavailable. Please try again later."

\* C22: a failure raised during the context build or during the model
\* generation call of a chat request is caught and the client receives a 503
\* response with the generic message, on every chat endpoint.
C22_FailureIsServiceUnavailable ==
    (chat.handler # "none" /\ (chat.contextThrew \/ chat.generationThrew)) =>
        /\ chat.status = 503
        /\ chat.error = TryAgainLater
        /\ chat.out = << >>

\* the reply of the request came from the local model or from the mock reply
LocalOrMockMode(c) == c.model \in {"ChatOllama", "mock"}

\* C23: the local or mock generation mode is the one used if and only if
\* AZURE_OPENAI_API_ENDPOINT is absent: with the endpoint set the reply comes
\* from the cloud model, with it absent from the local model or the mock reply.
C23_EndpointAloneSelectsMode ==
    (chat.handler # "none" /\ chat.model # "none") =>
        (LocalOrMockMode(chat) <=> ~azureOpenAiEndpoint)

\* a write of the response has thrown after the headers were sent
WriteFailed(c) == c.status = 200 /\ c.writeFailsAt \in 1..c.writes

\* C24: once the first byte of a chat response has been written, a failure of
\* a later write raises no exception out of the handler and produces no
\* second, error-status response: the stream simply ends.
C24_WriteFailureEndsStream ==
    (chat.handler # "none" /\ chat.phase = "done" /\ WriteFailed(chat)) =>
        /\ ~chat.escaped
        /\ ~chat.secondResponse
        /\ chat.ended

\* text begins with prefix
startsWith(text, prefix) ==
    Len(prefix) <= Len(text) /\ SubSeq(text, 1, Len(prefix)) = prefix

FodmapWord == <<" ", "F", "O", "D", "M", "A", "P">>

\* entry describes the record: it opens with the name and the verdict in upper
\* case before "FODMAP", and holds the whole recommendation of getFoodRating
DescribesRecord(entry, food, verdict) ==
    /\ startsWith(entry, food.name \o <<":", " ">> \o verdict \o FodmapWord)
    /\ includes(entry, getFoodRating(food).recommendation \o <<"\n">>)

UpperVerdict(food) ==
    CASE food.rating = "low" -> <<"L", "O", "W">>
      [] food.rating = "moderate" -> <<"M", "O", "D", "E", "R", "A", "T", "E">>
      [] food.rating = "high" -> <<"H", "I", "G", "H">>

\* text is one entry per record, in the order of the records
RECURSIVE EntryPerRecord(_, _)
EntryPerRecord(text, records) ==
    IF records = << >> THEN text = << >>
    ELSE \E k \in {j \in 1..Len(text) : text[j] = "\n"} :
            /\ DescribesRecord(SubSeq(text, 1, k), Head(records), UpperVerdict(Head(records)))
            /\ EntryPerRecord(SubSeq(text, k + 1, Len(text)), Tail(records))

\* C25: the grounding block of a chat request is empty exactly when the search
\* on the latest user message returns no record; otherwise it holds one entry
\* per matched record, in search-result order, each with the record's name, its
\* verdict in upper case followed by "FODMAP", and the full recommendation text
\* of getFoodRating for the record.
C25_GroundingBlockPerMatch ==
    (chat.handler # "none" /\ chat.searchCalls = 1) =>
        /\ chat.searchResults = searchFoods(foods, LatestMessage(chat))
        /\ (chat.contextInfo = << >>) <=> (chat.searchResults = << >>)
        /\ chat.searchResults # << >> =>
               /\ startsWith(chat.contextInfo, ContextHeader)
               /\ EntryPerRecord(SubSeq(chat.contextInfo, Len(ContextHeader) + 1,
                                        Len(chat.contextInfo)),
                                 chat.searchResults)

\* a request whose message matched two records of different verdicts
C25_Witness ==
    /\ chat.handler \in {"fodmapChat", "localChatStream"}
    /\ chat.phase = "done"
    /\ chat.searchCalls = 1
    /\ Len(chat.searchResults) = 2
    /\ chat.searchResults[1].rating # chat.searchResults[2].rating
    /\ Len(chat.contextInfo) > Len(ContextHeader)

\* String.prototype.indexOf, 1-based: where t first occurs in s, 0 if nowhere
indexOf(s, t) ==
    LET at == {i \in 1..Len(s) : /\ i + Len(t) - 1 <= Len(s)
                                  /\ \A k \in 1..Len(t) : s[i + k - 1] = t[k]}
    IN  IF at = {} THEN 0 ELSE CHOOSE i \in at : \A j \in at : i <= j

\* the carbohydrate classes in the order of the claim, each with the severity
\* code of the record it is derived from
ClassCodes(food) ==
    <<[class |-> Oligosaccharides, code |-> food.details.oligos],
      [class |-> Disaccharides, code |-> food.details.lactose],
      [class |-> Monosaccharides, code |-> food.details.fructose],
      [class |-> Polyols, code |-> food.details.polyols]>>

\* C26: in the category variant the recommendation of a record whose fodmap is
\* high names exactly the carbohydrate classes whose severity maps to medium
\* or high, in the order oligosaccharides, disaccharides, monosaccharides,
\* polyols; with no such class it is the generic "Not recommended" text; and
\* no class is named for a record whose fodmap is low.
C26_RecommendationNamesHighClasses ==
    (variant = "category" /\ rated.calls > 0) =>
        LET classes == ClassCodes(rated.food)
            text == rated.last.recommendation
            elevated(i) == SeverityWord(classes[i].code) \in {"medium", "high"}
            named(i) == indexOf(text, classes[i].class) > 0
        IN  /\ rated.food.fodmap = "high" =>
                   /\ \A i \in 1..4 : named(i) <=> elevated(i)
                   /\ \A i, j \in 1..4 :
                          (i < j /\ named(i) /\ named(j)) =>
                              indexOf(text, classes[i].class) < indexOf(text, classes[j].class)
                   /\ (\A i \in 1..4 : ~elevated(i)) =>
                          text = <<WarningSign>> \o NotRecommended
            /\ rated.food.fodmap = "low" => \A i \in 1..4 : ~named(i)

\* a record of fodmap high rated with oligos and polyols elevated and the two
\* other classes low
C26_Witness ==
    /\ variant = "category"
    /\ rated.calls > 0
    /\ rated.food.fodmap = "high"
    /\ rated.food.details = Details(2, 0, 1, 0)
    /\ indexOf(rated.last.recommendation, Oligosaccharides) > 0
    /\ indexOf(rated.last.recommendation, Polyols) > 0

\* C27: the recommendation of getFoodRating begins with the check mark if and
\* only if safeForLowFodmap is true; in the rating variant a moderate record
\* gets the cautionary marker and a text that cites safeServing, and a record
\* of any rating other than low and moderate gets the warning marker.
C27_MarkerFollowsVerdict ==
    rated.calls > 0 =>
        LET text == rated.last.recommendation
        IN  /\ Len(text) > 0
            /\ (text[1] = CheckMark) <=> rated.last.safeForLowFodmap
            /\ variant = "rating" =>
                   /\ rated.food.rating = "moderate" =>
                          /\ text[1] = WarningSign
                          /\ SubSeq(text, Len(text) - Len(rated.food.safeServing) + 1,
                                    Len(text)) = rated.food.safeServing
                   /\ rated.food.rating \notin {"low", "moderate"} => text[1] = CrossMark

\* a moderate record with a serving size, rated in the rating variant
C27_Witness ==
    /\ variant = "rating"
    /\ rated.calls > 0
    /\ rated.food.rating = "moderate"
    /\ rated.food.safeServing # << >>
    /\ rated.last.recommendation[1] = WarningSign

\* the handler answered that the messages of the body are invalid or missing
RejectedByValidation(c) ==
    /\ c.handler # "none"
    /\ c.error = "Invalid or missing messages in the request body"

\* C28: a chat request rejected by validation has no side effect: no catalog
\* search is run, no model generation call and no title generation call is
\* made, no message or title is written to the session history, and no delta
\* is emitted.
C28_RejectedRequestHasNoEffect ==
    [][(chat.phase = "idle" /\ RejectedByValidation(chat')) =>
          /\ chat'.searchCalls = 0
          /\ chat'.searchResults = << >>
          /\ chat'.modelCalls = 0
          /\ chat'.titleCalls = 0
          /\ chat'.historySessionId = Null
          /\ chat'.title = chat'.titleBefore
          /\ chat'.out = << >>
          /\ ~chat'.streamCreated
          /\ chat'.phase = "done"
          /\ foods' = foods
          /\ initialized' = initialized
          /\ reads' = reads]_vars

\* a request without content rejected by fodmapChatStream as the first request
\* of the process: the catalog has not been read
C28_Witness ==
    /\ RejectedByValidation(chat)
    /\ chat.handler = "fodmapChatStream"
    /\ chat.body.hasMessages
    /\ chat.phase = "done"
    /\ ~initialized
    /\ reads = 0

\* what the handler of the endpoint answers to the parameters over the catalog
\* as it is loaded
SearchResponse(endpoint, query, rating, id) ==
    LET s == [foods |-> foods, initialized |-> initialized, threw |-> FALSE, read |-> FALSE]
    IN  IF endpoint = "azure" THEN fodmapSearch(s, query, rating, id)
        ELSE localSearch(s, query, rating, id)

\* the records of a list response
ListedFoods(body) == [i \in 1..Len(body.results) |-> body.results[i].food]

\* C29: the HTTP search handler resolves its parameters in the priority id,
\* rating, q, full catalog: a non-empty id decides the response whatever
\* rating and q are, so an invalid q is not rejected when id is present; a
\* rating of low, moderate or high decides it whatever q is and returns every
\* record of that rating, not only 10; any other rating is ignored, not
\* rejected; and in every list response total is the number of results.
C29_ParameterPriority ==
    http.endpoint # "none" =>
        LET got == [status |-> http.status, body |-> http.body]
            byRating == truthy(http.rating) /\ http.rating \in {"low", "moderate", "high"}
        IN  /\ truthy(http.id) =>
                   /\ got = SearchResponse(http.endpoint, NullText, Null, http.id)
                   /\ http.body.kind \in {"item", "error"}
                   /\ http.body.kind = "error" => http.body.error = "Food not found"
            /\ (~truthy(http.id) /\ byRating) =>
                   /\ got = SearchResponse(http.endpoint, NullText, http.rating, Null)
                   /\ http.body.kind = "list"
                   /\ ListedFoods(http.body)
                          = SelectSeq(foods, LAMBDA food : food.rating = http.rating)
            /\ (~truthy(http.id) /\ ~byRating) =>
                   /\ got = SearchResponse(http.endpoint, http.q, Null, Null)
                   /\ IF truthyText(http.q)
                      THEN \/ http.body.kind = "list" /\ http.body.query = http.q
                           \/ http.body.kind = "error" /\ Len(http.q) < MinQueryLength
                      ELSE http.body.kind = "list" /\ ListedFoods(http.body) = foods
            /\ http.body.kind = "list" => http.body.total = Len(http.body.results)

\* a search by the rating low with a q of one character, over a catalog with
\* more than 10 records of that rating: all of them are returned
C29_Witness ==
    /\ http.endpoint = "azure"
    /\ ~truthy(http.id)
    /\ http.rating = "low"
    /\ http.q = QueryA
    /\ http.body.kind = "list"
    /\ http.body.total > SearchLimit

\* a finished request of fodmapChat whose reply the model has generated
ReplyGenerated(c) ==
    /\ c.handler = "fodmapChat"
    /\ c.phase = "done"
    /\ c.modelCalls = 1
    /\ ~c.generationThrew

\* C30: title derivation is best-effort: when the primary generation call of
\* fodmapChat has succeeded, the request ends with the streamed reply and not
\* with an error response, whether the title lookup and the title generation
\* call succeed or fail.
C30_TitleFailureKeepsReply ==
    ReplyGenerated(chat) =>
        /\ chat.error = ""
        /\ chat.ended
        /\ chat.out = chat.jsonStream

=============================================================================
